---- MODULE Spec2Model ----
(***************************************************************************)
(* Lease coordination of the zapier-scraper fleet.                         *)
(*                                                                         *)
(* The Lease Store is the Redis instance behind services/redisService.js:  *)
(*   app:processing:<id>  the lease  (SET ... EX PROCESSING_EXPIRY)        *)
(*   app:data:<id>        the completion marker (SET inside MULTI)         *)
(*   status:<machine>     the heartbeat (SET ... EX STATUS_EXPIRY)         *)
(* Every worker is one run of the apps scraper (main / processApp), with   *)
(* its own disk: the category files and the lock/<id>.lock cache.          *)
(* Each await of the code is one step, so the store operations of          *)
(* different workers interleave as they do on the wire.                    *)
(*                                                                         *)
(* Spec          the scraper fleet on a coarse clock (lease expiry)        *)
(* CaseSpec      the same fleet with two urls that differ only in case     *)
(* HeartbeatSpec the 30 s status timer and the SIGINT handler, one timer   *)
(*               period at a time                                          *)
(* MonitorSpec   monitor.js (KEYS machine:status:*, the machine table)     *)
(*               on a store the workers have left keys in                  *)
(***************************************************************************)
EXTENDS Integers, Sequences, FiniteSets, TLC

\* ---- program constants -------------------------------------------------
PROCESSING_EXPIRY == 3600
STATUS_EXPIRY == 90
MAX_RETRIES == 3
HEARTBEAT_INTERVAL == 30000
MACHINE_INACTIVE_THRESHOLD == 90000

\* ---- bounds of the model -----------------------------------------------
TickStep == 3600
MaxTime == 7200
MaxRestarts == 1
MaxSigints == 1
MaxFaults == 1
SoloFaults == 4
SoloTime == 21600
MaxEvents == 3
SoloEvents == 6
MaxClock == 180

Workers == {"m1", "m2"}
Items == {"a", "b"}
Categories == {"c1", "c2", "c3"}

\* the app names a url can carry: the items, and item a as a url spelled with a capital
Names == Items \cup {"A"}

\* content.urls of every category file, as app names
CategoryUrls ==
  [c \in Categories |-> CASE c = "c1" -> <<"a">> [] c = "c2" -> <<"b">> [] c = "c3" -> <<"A">>]

\* the category files each machine starts with in its category_results directory
InitialFiles == [w \in Workers |-> IF w = "m1" THEN {"c1", "c2"} ELSE {"c1"}]

\* the same fleet, with machine m2 holding the category whose url spells item a as A
CaseFiles == [w \in Workers |-> IF w = "m1" THEN {"c1", "c2"} ELSE {"c3"}]

VARIABLES
  now,            \* wall clock, seconds
  lease,          \* app:processing:<id>  : set holding the stored value, {} when the key is absent
  data,           \* app:data:<id>        : set holding the stored value, {} when the key is absent
  status,         \* status:<machine>     : set holding the stored value, {} when the key is absent
  lock,           \* per worker: names n with a file lock/<n>.lock
  catFile,        \* per worker: extension of every category file
  pc,             \* per worker: the await the run is suspended at
  selectedFile,   \* per worker: the category being processed
  urlIdx,         \* per worker: position in content.urls
  appName,        \* per worker: the item of the processApp call
  retryCount,     \* per worker: processApp's retryCount argument
  isProcessing,   \* per worker: result of the GET of checkAppStatus
  machineStatus,  \* per worker: the module-level machineStatus object
  pendingCache,   \* per worker: items whose markLocalCache call has not written yet
  sigint,         \* per worker: the SIGINT handler is awaiting its status write
  faults,         \* number of failed calls so far (scrapeApp returning null, rejected store commands)
  sigints,        \* number of SIGINTs delivered so far
  restarts,       \* number of times a worker process was started again
  connected,      \* the workers' Redis client has a ready connection to the store
  beatDue,        \* per worker: the 30 s status timer has fired and its callback not run yet
  mstatus,        \* machine:status:<id> : set holding the stored value, {} when the key is absent
  monPc,          \* the monitor: the await displayStats is suspended at
  monKeys,        \* the monitor: machineKeys, the reply of KEYS machine:status:*
  monMachines,    \* the monitor: stats.machines, the {key, data} pairs of getMachineStats
  totals,         \* the monitor: totalProcessing and totalCompleted as last printed
  table,          \* the monitor: the rows of the machine table as last printed
  renderedAt,     \* the monitor: the clock value `now` of the tick that printed the table
  listing,        \* the monitor: the lines of "Currently Processing Apps" as last printed
  monList,        \* the monitor: processingApps, the keys of the list not read yet
  mongo,          \* app:mongo:<name> : set holding the stored value, {} when the key is absent
  cleanPc,        \* cleanup-redis.js: the pattern cleanupRedis is deleting, or how it ended
  budget,         \* what a behaviour is followed through: failed calls, clock, events
  cacheErrors,    \* per worker: items markLocalCache has logged a write error for
  startedAt,      \* per worker: Date.now() when the process built its machineStatus
  importer        \* processApps.js: position, item, lock files left, claims made, last log line

vars == <<now, lease, data, status, lock, catFile, pc, selectedFile, urlIdx,
          appName, retryCount, isProcessing, machineStatus, pendingCache, sigint,
          faults, sigints, restarts, connected, beatDue, mstatus,
          monPc, monKeys, monMachines, totals, table, renderedAt, listing, monList,
          mongo, cleanPc, budget, cacheErrors, startedAt,
          importer>>

storeVars == <<lease, data, status>>
diskVars == <<lock, catFile>>
envVars == <<sigints, restarts>>
loopVars == <<selectedFile, urlIdx>>
procVars == <<appName, retryCount, isProcessing>>
monitorVars == <<monPc, monKeys, monMachines, totals, table, renderedAt, listing,
                 monList>>
restVars == <<connected, beatDue, mstatus, monitorVars>>
cleanupVars == <<mongo, cleanPc>>
budgetVars == <<budget>>
sideVars == <<cleanupVars, budgetVars, cacheErrors, startedAt, importer>>

NoApp == "null"
NoFile == "null"

\* String.prototype.toLowerCase on the names the model uses
toLowerCase(s) == CASE s = "A" -> "a" [] s = "B" -> "b" [] OTHER -> s

freshStatus == [processed_count |-> 0, failed_count |-> 0, current_app |-> NoApp]

\* the monitor is not running
MonitorOff ==
  /\ monPc = "exited"
  /\ monKeys = {}
  /\ monMachines = {}
  /\ totals = [processing |-> 0, completed |-> 0]
  /\ table = {}
  /\ renderedAt = 0
  /\ listing = {}
  /\ monList = {}

\* every machine has the category files `files` gives it and its scraper process is at
\* `at`: "main" when it has just started, "exited" when it is not running
Started(files, at) ==
  /\ now = 0
  /\ lock = [w \in Workers |-> {}]
  /\ catFile = [w \in Workers |->
                  [c \in Categories |-> IF c \in files[w] THEN "json" ELSE "absent"]]
  /\ pc = [w \in Workers |-> at]
  /\ beatDue = [w \in Workers |-> FALSE]
  /\ selectedFile = [w \in Workers |-> NoFile]
  /\ urlIdx = [w \in Workers |-> 0]
  /\ appName = [w \in Workers |-> NoApp]
  /\ retryCount = [w \in Workers |-> 0]
  /\ isProcessing = [w \in Workers |-> FALSE]
  /\ machineStatus = [w \in Workers |-> freshStatus]
  /\ pendingCache = [w \in Workers |-> {}]
  /\ cacheErrors = [w \in Workers |-> {}]
  /\ startedAt = [w \in Workers |-> 0]
  /\ sigint = [w \in Workers |-> FALSE]
  /\ faults = 0
  /\ sigints = 0
  /\ restarts = 0

\* the store holds no key
EmptyStore ==
  /\ lease = [i \in Names |-> {}]
  /\ data = [i \in Names |-> {}]
  /\ status = [w \in Workers |-> {}]
  /\ mstatus = [w \in Workers |-> {}]
  /\ mongo = [i \in Names |-> {}]

\* neither cleanup-redis.js nor processApps.js is running
CleanupOff ==
  /\ cleanPc = "off"
  /\ importer = [pc |-> "off", name |-> NoApp, todo |-> {}, claimed |-> {}, log |-> "none"]

\* a behaviour sees at most f failed calls among at most e events (failed calls,
\* signals, restarts) and follows the clock up to h
Budget(f, h, e) == budget = [faults |-> f, horizon |-> h, events |-> e]

\* the environment may still act on the behaviour
MoreEvents == sigints + restarts + faults < budget.events

\* the fleet starts on an empty store, which the workers may not be able to reach yet
Init ==
  /\ Started(InitialFiles, "main")
  /\ EmptyStore
  /\ MonitorOff
  /\ CleanupOff
  /\ Budget(MaxFaults, MaxTime, MaxEvents)
  /\ connected \in BOOLEAN

\* ---- the store ---------------------------------------------------------

\* Redis drops a key with a ttl once the clock has passed its expiry
Unexpired(S, t) == {r \in S : r.expires_at >= t}

\* the value markAppProcessing stores, with the expiry EX gives it
leaseRecord(w) == [machine_id |-> w, started_at |-> now, expires_at |-> now + PROCESSING_EXPIRY]

\* the value markAppCompleted stores
dataRecord(w) == [processed_by |-> w, processed_at |-> now]

\* the `status` field of a record the timer writes: machineStatus has none
NoStatus == "undefined"

\* the value updateMachineStatus stores: the fields of machineStatus the monitor's
\* displayStats reads (started_at and last_active, in ms, as the process set them when
\* it built the object), the status of the caller, last_update, and the expiry
statusRecord(w, st) == [machine_id |-> w, status |-> st, last_update |-> now,
                        started_at |-> startedAt[w] * 1000,
                        last_active |-> startedAt[w] * 1000,
                        expires_at |-> now + STATUS_EXPIRY]

\* ---- main loop ---------------------------------------------------------

jsonFiles(w) == {c \in Categories : catFile[w][c] = "json"}

\* main: readdir, pick a random .json category, read it
SelectCategory(w) ==
  /\ pc[w] = "main"
  /\ \E c \in jsonFiles(w) :
       /\ selectedFile' = [selectedFile EXCEPT ![w] = c]
       /\ urlIdx' = [urlIdx EXCEPT ![w] = 1]
  /\ pc' = [pc EXCEPT ![w] = "urls"]
  /\ UNCHANGED <<now, storeVars, diskVars, appName, retryCount, isProcessing,
                 machineStatus, pendingCache, sigint, faults, envVars, restVars, sideVars>>

\* main: no .json file is left, break
NoMoreCategories(w) ==
  /\ pc[w] = "main"
  /\ jsonFiles(w) = {}
  /\ pc' = [pc EXCEPT ![w] = "done"]
  /\ UNCHANGED <<now, storeVars, diskVars, loopVars, appName, retryCount, isProcessing,
                 machineStatus, pendingCache, sigint, faults, envVars, restVars, sideVars>>

\* processApp returns (its finally clears current_app, its locals are gone) and main
\* waits before the next url
Return(w, ms) ==
  /\ machineStatus' = [machineStatus EXCEPT ![w] = [ms EXCEPT !.current_app = NoApp]]
  /\ appName' = [appName EXCEPT ![w] = NoApp]
  /\ retryCount' = [retryCount EXCEPT ![w] = 0]
  /\ isProcessing' = [isProcessing EXCEPT ![w] = FALSE]
  /\ urlIdx' = [urlIdx EXCEPT ![w] = @ + 1]
  /\ pc' = [pc EXCEPT ![w] = "urls"]

Skipped(w) == Return(w, machineStatus[w])
\* Failed, had an error in one item ended the loop instead of returning to it
Failed_aborting(w) ==
  /\ machineStatus' = [machineStatus EXCEPT ![w] =
                         [@ EXCEPT !.failed_count = @ + 1, !.current_app = NoApp]]
  /\ appName' = [appName EXCEPT ![w] = NoApp]
  /\ retryCount' = [retryCount EXCEPT ![w] = 0]
  /\ isProcessing' = [isProcessing EXCEPT ![w] = FALSE]
  /\ urlIdx' = [urlIdx EXCEPT ![w] = 0]
  /\ pc' = [pc EXCEPT ![w] = "done"]

Failed(w) == Return(w, [machineStatus[w] EXCEPT !.failed_count = @ + 1])
Processed(w) == Return(w, [machineStatus[w] EXCEPT !.processed_count = @ + 1])

checkLocalCache(w, name) == toLowerCase(name) \in lock[w]

\* EnterProcessApp, had processApp gone to the store without looking at the local cache
EnterProcessApp_uncached(w, name, n) ==
  /\ appName' = [appName EXCEPT ![w] = name]
  /\ retryCount' = [retryCount EXCEPT ![w] = n]
  /\ pc' = [pc EXCEPT ![w] = "get"]
  /\ UNCHANGED <<machineStatus, urlIdx, isProcessing>>

\* processApp(url, retryCount = n) up to its first store command: the local cache check
EnterProcessApp(w, name, n) ==
  IF checkLocalCache(w, name)
  THEN Skipped(w)
  ELSE /\ appName' = [appName EXCEPT ![w] = name]
       /\ retryCount' = [retryCount EXCEPT ![w] = n]
       /\ pc' = [pc EXCEPT ![w] = "get"]
       /\ UNCHANGED <<machineStatus, urlIdx, isProcessing>>

\* main: the for loop over the urls calls processApp
NextUrl(w) ==
  /\ pc[w] = "urls"
  /\ urlIdx[w] <= Len(CategoryUrls[selectedFile[w]])
  /\ EnterProcessApp(w, CategoryUrls[selectedFile[w]][urlIdx[w]], 0)
  /\ UNCHANGED <<now, storeVars, diskVars, selectedFile, pendingCache, sigint, faults, envVars, restVars, sideVars>>

\* main: after the last url the category file is renamed to .processed
MarkCategoryProcessed(w) ==
  /\ pc[w] = "urls"
  /\ urlIdx[w] > Len(CategoryUrls[selectedFile[w]])
  /\ catFile' = [catFile EXCEPT ![w][selectedFile[w]] = "processed"]
  /\ selectedFile' = [selectedFile EXCEPT ![w] = NoFile]
  /\ urlIdx' = [urlIdx EXCEPT ![w] = 0]
  /\ pc' = [pc EXCEPT ![w] = "main"]
  /\ UNCHANGED <<now, storeVars, lock, procVars, machineStatus, pendingCache, sigint,
                 faults, envVars, restVars, sideVars>>

\* ---- processApp --------------------------------------------------------

\* checkAppStatus: GET app:processing:<id>
GetProcessing(w) ==
  /\ pc[w] = "get"
  /\ connected
  /\ isProcessing' = [isProcessing EXCEPT ![w] = (lease[appName[w]] # {})]
  /\ pc' = [pc EXCEPT ![w] = "exists"]
  /\ UNCHANGED <<now, storeVars, diskVars, loopVars, appName, retryCount,
                 machineStatus, pendingCache, sigint, faults, envVars, restVars, sideVars>>

\* ExistsData, had a live lease of another holder not kept the worker from claiming
ExistsData_claiming(w) ==
  /\ pc[w] = "exists"
  /\ connected
  /\ IF data[appName[w]] # {}
     THEN /\ lock' = [lock EXCEPT ![w] = @ \cup {toLowerCase(appName[w])}]
          /\ Skipped(w)
     ELSE /\ pc' = [pc EXCEPT ![w] = "markAppProcessing"]
          /\ UNCHANGED <<lock, machineStatus, urlIdx, procVars>>
  /\ UNCHANGED <<now, storeVars, catFile, selectedFile, pendingCache, sigint,
                 faults, envVars, restVars, sideVars>>

\* checkAppStatus: EXISTS app:data:<id>, then processApp's two skip tests
ExistsData(w) ==
  /\ pc[w] = "exists"
  /\ connected
  /\ IF data[appName[w]] # {}
     THEN /\ lock' = [lock EXCEPT ![w] = @ \cup {toLowerCase(appName[w])}]
          /\ Skipped(w)
     ELSE IF isProcessing[w]
     THEN /\ Skipped(w)
          /\ UNCHANGED lock
     ELSE /\ pc' = [pc EXCEPT ![w] = "markAppProcessing"]
          /\ UNCHANGED <<lock, machineStatus, urlIdx, procVars>>
  /\ UNCHANGED <<now, storeVars, catFile, selectedFile, pendingCache, sigint,
                 faults, envVars, restVars, sideVars>>

\* markAppProcessing: SET app:processing:<id> <value> EX 3600
MarkAppProcessing(w) ==
  /\ pc[w] = "markAppProcessing"
  /\ connected
  /\ lease' = [lease EXCEPT ![appName[w]] = {leaseRecord(w)}]
  /\ machineStatus' = [machineStatus EXCEPT ![w].current_app = appName[w]]
  /\ pc' = [pc EXCEPT ![w] = "scrapeApp"]
  /\ UNCHANGED <<now, data, status, diskVars, loopVars, procVars,
                 pendingCache, sigint, faults, envVars, restVars, sideVars>>

\* a command of checkAppStatus or markAppProcessing is rejected: processApp's catch
StoreError(w) ==
  /\ pc[w] \in {"get", "exists", "markAppProcessing"}
  /\ connected
  /\ faults < budget.faults /\ MoreEvents
  /\ faults' = faults + 1
  /\ Failed(w)
  /\ UNCHANGED <<now, storeVars, diskVars, selectedFile, pendingCache, sigint, envVars, restVars, sideVars>>

\* scrapeApp returned the app data: the three writes of Promise.all are started
ScrapeOk(w) ==
  /\ pc[w] = "scrapeApp"
  /\ pendingCache' = [pendingCache EXCEPT ![w] = @ \cup {appName[w]}]
  /\ pc' = [pc EXCEPT ![w] = "markAppCompleted"]
  /\ UNCHANGED <<now, storeVars, diskVars, loopVars, procVars,
                 machineStatus, sigint, faults, envVars, restVars, sideVars>>

\* ScrapeNull, had processApp called itself again however many retries it has made
ScrapeNull_unbounded(w) ==
  /\ pc[w] = "scrapeApp"
  /\ faults < budget.faults /\ MoreEvents
  /\ faults' = faults + 1
  /\ EnterProcessApp(w, appName[w], retryCount[w] + 1)
  /\ UNCHANGED <<now, storeVars, diskVars, selectedFile, pendingCache, sigint, envVars, restVars, sideVars>>

\* scrapeApp returned null: retry through a recursive processApp, or give up
ScrapeNull(w) ==
  /\ pc[w] = "scrapeApp"
  /\ faults < budget.faults /\ MoreEvents
  /\ faults' = faults + 1
  /\ IF retryCount[w] < MAX_RETRIES
     THEN EnterProcessApp(w, appName[w], retryCount[w] + 1)
     ELSE Failed(w)
  /\ UNCHANGED <<now, storeVars, diskVars, selectedFile, pendingCache, sigint, envVars, restVars, sideVars>>

\* MarkAppCompleted, had it stored the marker without deleting the lease
MarkAppCompleted_keepingLease(w) ==
  /\ pc[w] = "markAppCompleted"
  /\ connected
  /\ data' = [data EXCEPT ![appName[w]] = {dataRecord(w)}]
  /\ UNCHANGED lease
  /\ IF appName[w] \in pendingCache[w]
     THEN /\ pc' = [pc EXCEPT ![w] = "awaitCache"]
          /\ UNCHANGED <<machineStatus, urlIdx, procVars>>
     ELSE Processed(w)
  /\ UNCHANGED <<now, status, diskVars, selectedFile, pendingCache, sigint,
                 faults, envVars, restVars, sideVars>>

\* MarkAppCompleted, had processApp counted the item without awaiting markLocalCache
MarkAppCompleted_notAwaitingCache(w) ==
  /\ pc[w] = "markAppCompleted"
  /\ connected
  /\ data' = [data EXCEPT ![appName[w]] = {dataRecord(w)}]
  /\ lease' = [lease EXCEPT ![appName[w]] = {}]
  /\ Processed(w)
  /\ UNCHANGED <<now, status, diskVars, selectedFile, pendingCache, sigint,
                 faults, envVars, restVars, sideVars>>

\* markAppCompleted: MULTI; SET app:data:<id>; DEL app:processing:<id>; EXEC
MarkAppCompleted(w) ==
  /\ pc[w] = "markAppCompleted"
  /\ connected
  /\ data' = [data EXCEPT ![appName[w]] = {dataRecord(w)}]
  /\ lease' = [lease EXCEPT ![appName[w]] = {}]
  /\ IF appName[w] \in pendingCache[w]
     THEN /\ pc' = [pc EXCEPT ![w] = "awaitCache"]
          /\ UNCHANGED <<machineStatus, urlIdx, procVars>>
     ELSE Processed(w)
  /\ UNCHANGED <<now, status, diskVars, selectedFile, pendingCache, sigint,
                 faults, envVars, restVars, sideVars>>

\* the EXEC of markAppCompleted is rejected: Promise.all rejects, processApp's catch
MarkAppCompletedError(w) ==
  /\ pc[w] = "markAppCompleted"
  /\ connected
  /\ faults < budget.faults /\ MoreEvents
  /\ faults' = faults + 1
  /\ Failed(w)
  /\ UNCHANGED <<now, storeVars, diskVars, selectedFile, pendingCache, sigint, envVars, restVars, sideVars>>

\* markLocalCache: the lock file of a started call is written
MarkLocalCache(w) ==
  /\ \E i \in pendingCache[w] :
       /\ lock' = [lock EXCEPT ![w] = @ \cup {toLowerCase(i)}]
       /\ pendingCache' = [pendingCache EXCEPT ![w] = @ \ {i}]
       /\ IF pc[w] = "awaitCache" /\ appName[w] = i
          THEN Processed(w)
          ELSE UNCHANGED <<pc, machineStatus, urlIdx, procVars>>
  /\ UNCHANGED <<now, storeVars, catFile, selectedFile, sigint,
                 faults, envVars, restVars, sideVars>>

\* ---- process lifecycle -------------------------------------------------

\* SIGINT arrives: the handler starts and awaits updateMachineStatus
Sigint(w) ==
  /\ pc[w] # "exited"
  /\ ~sigint[w]
  /\ sigints < MaxSigints /\ MoreEvents
  /\ sigints' = sigints + 1
  /\ sigint' = [sigint EXCEPT ![w] = TRUE]
  /\ UNCHANGED <<now, storeVars, diskVars, pc, loopVars, appName, retryCount, isProcessing,
                 machineStatus, pendingCache, faults, restarts, restVars, sideVars>>

\* SigintExit, had the handler released the leases of the exiting worker
SigintExit_releasing(w) ==
  /\ sigint[w]
  /\ connected
  /\ beatDue' = [beatDue EXCEPT ![w] = FALSE]
  /\ \/ status' = [status EXCEPT ![w] = {statusRecord(w, "stopped")}]
     \/ UNCHANGED status
     \/ /\ beatDue[w]
        /\ status' = [status EXCEPT ![w] = {statusRecord(w, NoStatus)}]
  /\ lease' = [i \in Names |-> {r \in lease[i] : r.machine_id # w}]
  /\ sigint' = [sigint EXCEPT ![w] = FALSE]
  /\ pc' = [pc EXCEPT ![w] = "exited"]
  /\ pendingCache' = [pendingCache EXCEPT ![w] = {}]
  /\ selectedFile' = [selectedFile EXCEPT ![w] = NoFile]
  /\ urlIdx' = [urlIdx EXCEPT ![w] = 0]
  /\ appName' = [appName EXCEPT ![w] = NoApp]
  /\ retryCount' = [retryCount EXCEPT ![w] = 0]
  /\ isProcessing' = [isProcessing EXCEPT ![w] = FALSE]
  /\ machineStatus' = [machineStatus EXCEPT ![w] = freshStatus]
  /\ UNCHANGED <<now, data, diskVars, faults, envVars, connected, mstatus, monitorVars, sideVars>>

\* the handler's status write is answered (stored or rejected), then process.exit:
\* everything the process held in memory is gone.  The handler does not clear the
\* timer: a callback that fired while the handler was waiting has queued its SET on
\* the same connection behind the handler's, and the store may run it before the
\* process is gone.
SigintExit(w) ==
  /\ sigint[w]
  /\ connected
  /\ beatDue' = [beatDue EXCEPT ![w] = FALSE]
  /\ \/ status' = [status EXCEPT ![w] = {statusRecord(w, "stopped")}]
     \/ UNCHANGED status
     \/ /\ beatDue[w]
        /\ status' = [status EXCEPT ![w] = {statusRecord(w, NoStatus)}]
  /\ sigint' = [sigint EXCEPT ![w] = FALSE]
  /\ pc' = [pc EXCEPT ![w] = "exited"]
  /\ pendingCache' = [pendingCache EXCEPT ![w] = {}]
  /\ selectedFile' = [selectedFile EXCEPT ![w] = NoFile]
  /\ urlIdx' = [urlIdx EXCEPT ![w] = 0]
  /\ appName' = [appName EXCEPT ![w] = NoApp]
  /\ retryCount' = [retryCount EXCEPT ![w] = 0]
  /\ isProcessing' = [isProcessing EXCEPT ![w] = FALSE]
  /\ machineStatus' = [machineStatus EXCEPT ![w] = freshStatus]
  /\ UNCHANGED <<now, lease, data, diskVars, faults, envVars, connected, mstatus, monitorVars, sideVars>>

\* the Redis client of redisClient.js, retrying for ever, gets its connection: the
\* commands waiting in its offline queue are sent
Connect ==
  /\ ~connected
  /\ connected' = TRUE
  /\ UNCHANGED <<now, storeVars, diskVars, pc, loopVars, procVars, machineStatus,
                 pendingCache, sigint, faults, envVars, beatDue, mstatus, monitorVars, sideVars>>

\* the operator starts the scraper again on the same machine
Restart(w) ==
  /\ pc[w] = "exited"
  /\ restarts < MaxRestarts /\ MoreEvents
  /\ restarts' = restarts + 1
  /\ pc' = [pc EXCEPT ![w] = "main"]
  /\ startedAt' = [startedAt EXCEPT ![w] = now]
  /\ UNCHANGED <<now, storeVars, diskVars, loopVars, procVars, machineStatus, pendingCache,
                 sigint, faults, sigints, restVars, cleanupVars, budgetVars, cacheErrors,
                 importer>>

\* time passes; keys past their expiry are gone
Tick ==
  /\ now + TickStep <= budget.horizon
  /\ now' = now + TickStep
  /\ lease' = [i \in Names |-> Unexpired(lease[i], now')]
  /\ status' = [w \in Workers |-> Unexpired(status[w], now')]
  /\ UNCHANGED <<data, diskVars, pc, loopVars, appName, retryCount, isProcessing,
                 machineStatus, pendingCache, sigint, faults, envVars, restVars, sideVars>>

\* ---- the status timer --------------------------------------------------

\* Heartbeat, had the SET kept the ttl of the key it overwrites instead of setting EX
Heartbeat_keepingTtl(w) ==
  /\ beatDue[w]
  /\ ~sigint[w]
  /\ connected
  /\ \/ /\ status' = [status EXCEPT ![w] =
                        {[statusRecord(w, NoStatus) EXCEPT !.expires_at =
                            IF status[w] = {} THEN now + STATUS_EXPIRY
                            ELSE (CHOOSE r \in status[w] : TRUE).expires_at]}]
        /\ UNCHANGED faults
     \/ /\ faults < budget.faults /\ MoreEvents
        /\ faults' = faults + 1
        /\ UNCHANGED status
  /\ beatDue' = [beatDue EXCEPT ![w] = FALSE]
  /\ UNCHANGED <<now, lease, data, diskVars, pc, loopVars, procVars, machineStatus,
                 pendingCache, sigint, envVars, connected, mstatus, monitorVars, sideVars>>

\* the setInterval callback: updateMachineStatus(machineStatus), SET status:<machine>
\* <value> EX 90; a rejected command is caught and logged.  A callback that runs after
\* the SIGINT handler has sent its write is accounted for in SigintExit.
Heartbeat(w) ==
  /\ beatDue[w]
  /\ ~sigint[w]
  /\ connected
  /\ \/ /\ status' = [status EXCEPT ![w] = {statusRecord(w, NoStatus)}]
        /\ UNCHANGED faults
     \/ /\ faults < budget.faults /\ MoreEvents
        /\ faults' = faults + 1
        /\ UNCHANGED status
  /\ beatDue' = [beatDue EXCEPT ![w] = FALSE]
  /\ UNCHANGED <<now, lease, data, diskVars, pc, loopVars, procVars, machineStatus,
                 pendingCache, sigint, envVars, connected, mstatus, monitorVars, sideVars>>

\* one timer period passes: the timer of every running process fires, keys past their
\* expiry are gone.  The callbacks that were due have run before.
Elapse ==
  /\ now + HEARTBEAT_INTERVAL \div 1000 <= MaxClock
  /\ \A w \in Workers : ~beatDue[w]
  /\ now' = now + HEARTBEAT_INTERVAL \div 1000
  /\ beatDue' = [w \in Workers |-> pc[w] # "exited"]
  /\ lease' = [i \in Names |-> Unexpired(lease[i], now')]
  /\ status' = [w \in Workers |-> Unexpired(status[w], now')]
  /\ UNCHANGED <<data, diskVars, pc, loopVars, procVars, machineStatus, pendingCache,
                 sigint, faults, envVars, connected, mstatus, monitorVars, sideVars>>

\* ---- the monitor -------------------------------------------------------

\* key names, split at the colons
processingKey(n) == <<"app", "processing", n>>
dataKey(n) == <<"app", "data", n>>
statusKey(w) == <<"status", w>>
machineStatusKey(m) == <<"machine", "status", m>>
mongoKey(n) == <<"app", "mongo", n>>

\* the keys the store holds
Keys ==
  {processingKey(n) : n \in {x \in Names : lease[x] # {}}}
    \cup {dataKey(n) : n \in {x \in Names : data[x] # {}}}
    \cup {statusKey(w) : w \in {x \in Workers : status[x] # {}}}
    \cup {machineStatusKey(m) : m \in {x \in Workers : mstatus[x] # {}}}
    \cup {mongoKey(n) : n \in {x \in Names : mongo[x] # {}}}

\* redis.keys('<prefix>:*')
keys(prefix) ==
  {k \in Keys : Len(k) > Len(prefix) /\ SubSeq(k, 1, Len(prefix)) = prefix}

\* redis.get(key), parsed: the set holding the value, {} for null
get(k) ==
  CASE k[1] = "app" /\ k[2] = "processing" -> lease[k[3]]
    [] k[1] = "app" /\ k[2] = "data" -> data[k[3]]
    [] k[1] = "app" /\ k[2] = "mongo" -> mongo[k[3]]
    [] k[1] = "status" -> status[k[2]]
    [] k[1] = "machine" -> mstatus[k[3]]

\* data.<f>: the set holding the value, {} for undefined
Field(d, f) == IF f \in DOMAIN d THEN {d[f]} ELSE {}

\* now - v: {} is NaN
Minus(t, v) == {t - x : x \in v}

\* Date.now() of the monitor, in ms
DateNow == now * 1000

formatDuration(ms) ==
  IF ms = {} THEN [form |-> "NaNs", a |-> 0, b |-> 0]
  ELSE LET seconds == (CHOOSE x \in ms : TRUE) \div 1000
           minutes == seconds \div 60
           hours == minutes \div 60
       IN IF hours > 0 THEN [form |-> "h m", a |-> hours, b |-> minutes % 60]
          ELSE IF minutes > 0 THEN [form |-> "m s", a |-> minutes, b |-> seconds % 60]
          ELSE [form |-> "s", a |-> seconds, b |-> 0]

\* isActive, had the comparison with the threshold been <=
isActive_inclusive(lastActiveAgo) ==
  \E x \in lastActiveAgo : x <= MACHINE_INACTIVE_THRESHOLD

\* lastActiveAgo < MACHINE_INACTIVE_THRESHOLD, false for NaN
isActive(lastActiveAgo) ==
  \E x \in lastActiveAgo : x < MACHINE_INACTIVE_THRESHOLD

\* v || '-'
OrDash(v) == IF v = {} \/ v = {NoApp} THEN "-" ELSE CHOOSE x \in v : TRUE

\* the row displayStats pushes for one machine
Row(key, d, t) ==
  LET lastActiveAgo == Minus(t, Field(d, "last_active"))
  IN [machineId |-> key[3],
      status |-> IF isActive(lastActiveAgo) THEN "active" ELSE "inactive",
      current_app |-> OrDash(Field(d, "current_app")),
      current_category |-> OrDash(Field(d, "current_category")),
      processed_count |-> Field(d, "processed_count"),
      failed_count |-> Field(d, "failed_count"),
      last_active |-> formatDuration(lastActiveAgo),
      uptime |-> formatDuration(Minus(t, Field(d, "started_at")))]

\* node monitor.js: the client is created and the first displayStats call begins
MonitorStart ==
  /\ monPc = "exited"
  /\ monPc' = "idle"
  /\ UNCHANGED <<now, storeVars, mstatus, diskVars, pc, loopVars, procVars, machineStatus,
                 pendingCache, sigint, faults, envVars, connected, beatDue,
                 monKeys, monMachines, totals, table, renderedAt, listing, monList,
                 sideVars>>

\* getMachineStats: KEYS machine:status:*
MonitorKeys ==
  /\ monPc = "idle"
  /\ monKeys' = keys(<<"machine", "status">>)
  /\ monPc' = "get"
  /\ UNCHANGED <<now, storeVars, mstatus, diskVars, pc, loopVars, procVars, machineStatus,
                 pendingCache, sigint, faults, envVars, connected, beatDue,
                 monMachines, totals, table, renderedAt, listing, monList, sideVars>>

\* getMachineStats: the GETs of Promise.all over machineKeys
MonitorGet ==
  /\ monPc = "get"
  /\ monMachines' = {[key |-> k, data |-> get(k)] : k \in monKeys}
  /\ monPc' = "count"
  /\ UNCHANGED <<now, storeVars, mstatus, diskVars, pc, loopVars, procVars, machineStatus,
                 pendingCache, sigint, faults, envVars, connected, beatDue,
                 monKeys, totals, table, renderedAt, listing, monList, sideVars>>

\* what MonitorRender leaves in the monitor: the two KEYS counts, then the table.  A
\* machine whose GET returned null makes data.last_active throw: the screen is cleared
\* and nothing more is printed.
Render ==
  /\ monPc = "count"
  /\ totals' = [processing |-> Cardinality(keys(<<"app", "processing">>)),
                completed |-> Cardinality(keys(<<"app", "data">>))]
  /\ renderedAt' = now
  /\ listing' = {}
  /\ IF \E m \in monMachines : m.data = {}
     THEN table' = {} /\ monPc' = "idle"
     ELSE /\ table' = {Row(m.key, CHOOSE d \in m.data : TRUE, DateNow) : m \in monMachines}
          /\ monPc' = IF totals'.processing > 0 THEN "list" ELSE "idle"
  /\ UNCHANGED <<monKeys, monMachines, monList>>

\* MonitorRender, had the tick deleted the records of the machines it shows inactive
MonitorRender_pruning ==
  /\ Render
  /\ mstatus' = [m \in Workers |->
                   IF \E r \in table' : r.machineId = m /\ r.status = "inactive"
                   THEN {} ELSE mstatus[m]]
  /\ UNCHANGED <<now, storeVars, diskVars, pc, loopVars, procVars, machineStatus,
                 pendingCache, sigint, faults, envVars, connected, beatDue, sideVars>>

\* getMachineStats returns (KEYS app:processing:*, KEYS app:data:*), displayStats prints
MonitorRender ==
  /\ Render
  /\ UNCHANGED <<now, storeVars, mstatus, diskVars, pc, loopVars, procVars, machineStatus,
                 pendingCache, sigint, faults, envVars, connected, beatDue, sideVars>>

\* displayStats: "Currently Processing Apps", KEYS app:processing:*
MonitorList ==
  /\ monPc = "list"
  /\ monList' = keys(<<"app", "processing">>)
  /\ monPc' = IF monList' = {} THEN "idle" ELSE "listGet"
  /\ UNCHANGED <<now, storeVars, mstatus, diskVars, pc, loopVars, procVars, machineStatus,
                 pendingCache, sigint, faults, envVars, connected, beatDue,
                 monKeys, monMachines, totals, table, renderedAt, listing, sideVars>>

\* the line displayStats prints for a lease
ListLine(k, r) ==
  [appName |-> k[3], machine_id |-> r.machine_id,
   duration |-> formatDuration({renderedAt * 1000 - r.started_at * 1000})]

\* displayStats: one round of the for loop over processingApps, a GET and a line.  A
\* GET that returns null makes data.started_at throw: displayStats' catch logs the
\* error and the tick is over
MonitorListGet ==
  /\ monPc = "listGet"
  /\ \E k \in monList :
       IF get(k) = {}
       THEN /\ monList' = {}
            /\ monPc' = "idle"
            /\ UNCHANGED listing
       ELSE /\ listing' = listing \cup {ListLine(k, r) : r \in get(k)}
            /\ monList' = monList \ {k}
            /\ monPc' = IF monList' = {} THEN "idle" ELSE "listGet"
  /\ UNCHANGED <<now, storeVars, mstatus, diskVars, pc, loopVars, procVars, machineStatus,
                 pendingCache, sigint, faults, envVars, connected, beatDue,
                 monKeys, monMachines, totals, table, renderedAt, sideVars>>

\* a command of the tick is rejected: getMachineStats returns null ("Waiting for
\* data..."), or displayStats' catch logs the error; the tick is over
MonitorStoreError ==
  /\ monPc \in {"get", "count", "list", "listGet"}
  /\ faults < budget.faults /\ MoreEvents
  /\ faults' = faults + 1
  /\ monPc' = "idle"
  /\ monList' = {}
  /\ UNCHANGED <<now, storeVars, mstatus, diskVars, pc, loopVars, procVars, machineStatus,
                 pendingCache, sigint, envVars, connected, beatDue,
                 monKeys, monMachines, totals, table, renderedAt, listing, sideVars>>

\* SIGINT of the monitor: isShuttingDown, clearInterval, redis.quit(), process.exit(0)
MonitorSigint ==
  /\ monPc # "exited"
  /\ monPc' = "exited"
  /\ monKeys' = {}
  /\ monMachines' = {}
  /\ monList' = {}
  /\ UNCHANGED <<now, storeVars, mstatus, diskVars, pc, loopVars, procVars, machineStatus,
                 pendingCache, sigint, faults, envVars, connected, beatDue,
                 totals, table, renderedAt, listing, sideVars>>

WorkerStep(w) ==
  \/ SelectCategory(w)
  \/ NoMoreCategories(w)
  \/ NextUrl(w)
  \/ MarkCategoryProcessed(w)
  \/ GetProcessing(w)
  \/ ExistsData(w)
  \/ MarkAppProcessing(w)
  \/ StoreError(w)
  \/ ScrapeOk(w)
  \/ ScrapeNull(w)
  \/ MarkAppCompleted(w)
  \/ MarkAppCompletedError(w)
  \/ MarkLocalCache(w)

Next ==
  \/ \E w \in Workers : WorkerStep(w)
  \/ \E w \in Workers : Sigint(w)
  \/ \E w \in Workers : SigintExit(w)
  \/ \E w \in Workers : Restart(w)
  \/ Connect
  \/ Tick

Spec == Init /\ [][Next]_vars

\* markLocalCache: mkdir or writeFile throws, the catch logs it and the call returns
\* without a lock file
MarkLocalCacheError(w) ==
  /\ \E i \in pendingCache[w] :
       /\ pendingCache' = [pendingCache EXCEPT ![w] = @ \ {i}]
       /\ cacheErrors' = [cacheErrors EXCEPT ![w] = @ \cup {i}]
       /\ IF pc[w] = "awaitCache" /\ appName[w] = i
          THEN Processed(w)
          ELSE UNCHANGED <<pc, machineStatus, urlIdx, procVars>>
  /\ UNCHANGED <<now, storeVars, diskVars, selectedFile, sigint,
                 faults, envVars, restVars, cleanupVars, budgetVars, startedAt, importer>>

\* processApp finds the item completed and the markLocalCache it awaits before it
\* returns fails to write
ExistsDataCacheError(w) ==
  /\ pc[w] = "exists"
  /\ connected
  /\ data[appName[w]] # {}
  /\ cacheErrors' = [cacheErrors EXCEPT ![w] = @ \cup {appName[w]}]
  /\ Skipped(w)
  /\ UNCHANGED <<now, storeVars, diskVars, selectedFile, pendingCache, sigint,
                 faults, envVars, restVars, cleanupVars, budgetVars, startedAt, importer>>

\* one machine has one category file, the other none
SoloFiles == [w \in Workers |-> IF w = "m1" THEN {"c1"} ELSE {}]

\* a single worker, followed through as many failed calls and as
\* much time as all the retries of an item take, on a disk that may fail
SoloInit ==
  /\ Started(SoloFiles, "main")
  /\ EmptyStore
  /\ MonitorOff
  /\ CleanupOff
  /\ Budget(SoloFaults, SoloTime, SoloEvents)
  /\ connected \in BOOLEAN

SoloNext ==
  \/ Next
  \/ \E w \in Workers : MarkLocalCacheError(w)
  \/ \E w \in Workers : ExistsDataCacheError(w)

SoloSpec == SoloInit /\ [][SoloNext]_vars

\* the fleet started with two urls that differ only in case
CaseInit ==
  /\ Started(CaseFiles, "main")
  /\ EmptyStore
  /\ MonitorOff
  /\ CleanupOff
  /\ Budget(MaxFaults, MaxTime, MaxEvents)
  /\ connected \in BOOLEAN

CaseSpec == CaseInit /\ [][Next]_vars

\* the status timers of the fleet, seen one timer period at a time
HeartbeatInit ==
  /\ Started(InitialFiles, "main")
  /\ EmptyStore
  /\ MonitorOff
  /\ CleanupOff
  /\ Budget(MaxFaults, MaxTime, MaxEvents)
  /\ connected = TRUE

HeartbeatNext ==
  \/ \E w \in Workers : Heartbeat(w)
  \/ \E w \in Workers : Sigint(w)
  \/ \E w \in Workers : SigintExit(w)
  \/ Elapse

HeartbeatSpec == HeartbeatInit /\ [][HeartbeatNext]_vars

\* no machine has a category file
NoFiles == [w \in Workers |-> {}]

\* a complete record under machine:status:<id>, and the records that miss some of its fields
FullRecord ==
  [last_active |-> 0, started_at |-> 0, processed_count |-> 1, failed_count |-> 0,
   current_app |-> "a", current_category |-> "c1"]

PartialRecords == {[f \in S |-> FullRecord[f]] : S \in SUBSET DOMAIN FullRecord}

\* the monitor is started on a store that workers which are no longer running have
\* left keys in, next to whatever records there are under machine:status:*
MonitorInit ==
  /\ Started(NoFiles, "exited")
  /\ lease \in {[n \in Names |-> IF n = "a" /\ held THEN {leaseRecord("m1")} ELSE {}] :
                  held \in BOOLEAN}
  /\ data \in {[n \in Names |-> IF n = "b" /\ done THEN {dataRecord("m1")} ELSE {}] :
                 done \in BOOLEAN}
  /\ status \in {[w \in Workers |->
                     IF w = "m1" /\ beat THEN {statusRecord("m1", "stopped")} ELSE {}] :
                   beat \in BOOLEAN}
  /\ mstatus \in {[m \in Workers |-> IF m = "m1" THEN r1 ELSE r2] :
                    r1 \in {{}} \cup {{r} : r \in PartialRecords},
                    r2 \in {{}, {FullRecord}}}
  /\ MonitorOff
  /\ mongo = [i \in Names |-> {}]
  /\ CleanupOff
  /\ Budget(MaxFaults, MaxTime, MaxEvents)
  /\ connected = TRUE

MonitorNext ==
  \/ MonitorStart
  \/ MonitorKeys
  \/ MonitorGet
  \/ MonitorRender
  \/ MonitorList
  \/ MonitorListGet
  \/ MonitorStoreError
  \/ MonitorSigint
  \/ Elapse

MonitorSpec == MonitorInit /\ [][MonitorNext]_vars

\* ---- C1 ----------------------------------------------------------------

\* the statement after `await redisService.markAppProcessing(appName)` has run for item i
\* and the processApp call of worker w has not returned yet
ClaimSucceeded(w, i) == machineStatus[w].current_app = i

\* C1: at-most-one-claim.  While no lease can have expired yet (the clock has not passed
\* the first possible expiry), the claim attempts of distinct workers on one item are
\* concurrent attempts, and at most one of them has succeeded.
C1_AtMostOneClaim ==
  now <= PROCESSING_EXPIRY =>
    \A i \in Items : Cardinality({w \in Workers : ClaimSucceeded(w, i)}) <= 1

\* ---- C2 ----------------------------------------------------------------

\* worker w is in PROCESSING for item i: claimed, scrapeApp running or its result not
\* yet completed
InProcessing(w, i) == appName[w] = i /\ pc[w] \in {"scrapeApp", "markAppCompleted"}

\* C2: mutual exclusion of PROCESSING.  No two distinct workers are in PROCESSING for
\* the same item in any reachable state.
C2_MutualExclusion ==
  \A i \in Items : \A w1, w2 \in Workers :
    (InProcessing(w1, i) /\ InProcessing(w2, i)) => w1 = w2

\* ---- C3 ----------------------------------------------------------------

\* C3: claim is set-if-absent.  A step taken while a live lease for an item exists
\* either removes that lease (complete, expiry) or leaves its machine_id, started_at and
\* expiry as they are: no claim replaces a live lease.
C3_ClaimIsSetIfAbsent ==
  [][\A i \in Items : (lease[i] # {} /\ lease'[i] # {}) => lease'[i] = lease[i]]_vars

\* ---- C4 ----------------------------------------------------------------

\* C4: completion is terminal.  Once the completion marker of an item exists it exists in
\* every later state, and no later step writes a lease for that item.
C4_CompletionIsTerminal ==
  [][\A i \in Items : data[i] # {} =>
        /\ data'[i] # {}
        /\ lease'[i] \subseteq lease[i]]_vars

\* ---- C5 ----------------------------------------------------------------

\* C5: complete is atomic.  No reachable state holds both the completion marker and a
\* live lease of the same item.
C5_NoMarkerWithLease ==
  \A i \in Items : ~(data[i] # {} /\ lease[i] # {})

\* ---- C6 ----------------------------------------------------------------

\* C6: lease self-heals, and not before.  The holder recorded in a stored lease changes
\* to a different machine only once the clock has passed that lease's expiry
\* (started_at + PROCESSING_EXPIRY).
C6_NoTakeoverBeforeExpiry ==
  [][\A i \in Items : \A old \in lease[i] : \A new \in lease'[i] :
        new.machine_id # old.machine_id => now' > old.started_at + PROCESSING_EXPIRY]_vars

\* ---- C7 ----------------------------------------------------------------

\* C7: the lease is released on processing failure.  When a processApp call in which
\* scrapeApp has failed (retryCount > 0) returns to the loop, no lease written by this
\* worker for that item is left in the store.
C7_LeaseReleasedOnFailure ==
  [][\A w \in Workers :
        (appName[w] # NoApp /\ retryCount[w] > 0 /\ pc'[w] = "urls")
          => \A r \in lease'[appName[w]] : r.machine_id # w]_vars

\* ---- C8 ----------------------------------------------------------------

\* every worker has left its loop: no .json category file is left on its disk, so neither
\* this run nor a later one pulls an item again
AllWorkersDone == \A w \in Workers : pc[w] = "done"

\* C8: every backlog item is eventually completed (the number of failures is bounded by
\* MaxFaults, so the Item Processor eventually succeeds).  Stated on the final states:
\* when every worker has worked off its backlog, every item has its completion marker.
C8_EveryItemCompleted ==
  AllWorkersDone => \A i \in Items : data[i] # {}

\* ---- C9 ----------------------------------------------------------------

\* C9: local-cache soundness.  Every item a worker's local cache reports as complete has
\* its completion marker in the store.
C9_LocalCacheSound ==
  \A w \in Workers : \A i \in Items : checkLocalCache(w, i) => data[i] # {}

\* ---- C10 ---------------------------------------------------------------

\* every stored lease is within its ttl: it is gone once the clock passes
\* started_at + PROCESSING_EXPIRY
LeaseWithinTtl ==
  \A i \in Items : \A r \in lease[i] :
    /\ r.expires_at = r.started_at + PROCESSING_EXPIRY
    /\ now <= r.expires_at

\* the steps of worker w's SIGINT handler: the signal arrives, the handler exits
SigintStep(w) == sigint'[w] # sigint[w] \/ (pc[w] # "exited" /\ pc'[w] = "exited")

\* C10: cancellation leaves the lease to expire.  No step of a worker's SIGINT handler
\* deletes or changes a lease, whatever the worker was doing, and every lease in the
\* store is gone once its ttl has passed.
C10_CancellationKeepsLease ==
  /\ []LeaseWithinTtl
  /\ [][\A w \in Workers : SigintStep(w) => lease' = lease]_vars

\* a worker was interrupted while it held the lease of an item and has exited; time has
\* passed since and the lease it left behind is still in the store
C10_Witness ==
  \E i \in Items : \E r \in lease[i] :
    /\ pc[r.machine_id] = "exited"
    /\ now > r.started_at

\* ---- C11 ---------------------------------------------------------------

\* a call made for an item by worker w fails in this step: scrapeApp returns null, or a
\* command of checkAppStatus, markAppProcessing or markAppCompleted is rejected
FailureStep(w) == faults' # faults /\ pc'[w] # pc[w]

\* C11: per-item failures never abort the worker loop.  A step in which a call made for
\* an item fails leaves the worker inside the loop over the urls of its category: either
\* the same url is retried or the loop stands at the next url; and a category file is
\* renamed .processed only after the loop has passed every url of the category.
C11_FailureKeepsLoop ==
  [][\A w \in Workers :
        /\ FailureStep(w) =>
              /\ selectedFile'[w] = selectedFile[w]
              /\ \/ pc'[w] = "urls" /\ urlIdx'[w] = urlIdx[w] + 1
                 \/ pc'[w] = "get" /\ urlIdx'[w] = urlIdx[w] /\ appName'[w] = appName[w]
        /\ \A c \in Categories :
              (catFile[w][c] = "json" /\ catFile'[w][c] # "json")
                => (selectedFile[w] = c /\ urlIdx[w] > Len(CategoryUrls[c]))]_vars

\* a worker that has counted a failed item is issuing the status check of a later item
C11_Witness ==
  \E w \in Workers :
    /\ machineStatus[w].failed_count > 0
    /\ pc[w] = "get"
    /\ retryCount[w] = 0

\* ---- C19 ---------------------------------------------------------------

\* C19: the completion marker is write-once.  Once the marker of an item exists, no step
\* of any worker changes its processed_by or processed_at, and no step deletes it.
C19_MarkerWriteOnce ==
  [][\A i \in Items : data[i] # {} => data'[i] = data[i]]_vars

\* ---- C20 ---------------------------------------------------------------

\* the EXEC of worker w's markAppCompleted call is answered in this step
CompleteStep(w) ==
  /\ pc[w] = "markAppCompleted"
  /\ pc'[w] \in {"awaitCache", "urls"}
  /\ faults' = faults

\* processed_count of the workers in S, added up
RECURSIVE SumProcessed(_)
SumProcessed(S) ==
  IF S = {} THEN 0
  ELSE LET w == CHOOSE x \in S : TRUE
       IN machineStatus[w].processed_count + SumProcessed(S \ {w})

\* C20: completion is idempotent.  Every complete call, the first for an item or a later
\* one, by a worker whose lease is still stored or not, leaves the store with exactly one
\* marker value for the item and no lease for it; the other items' keys are untouched.
C20_CompletionIdempotent ==
  [][\A w \in Workers : CompleteStep(w) =>
        /\ Cardinality(data'[appName[w]]) = 1
        /\ lease'[appName[w]] = {}
        /\ \A i \in Items \ {appName[w]} : data'[i] = data[i] /\ lease'[i] = lease[i]]_vars

\* the workers have counted more completions than there are markers: some item has been
\* completed a second time, and its marker is there without a lease
C20_Witness ==
  /\ SumProcessed(Workers) > Cardinality({i \in Items : data[i] # {}})
  /\ \E i \in Items : data[i] # {} /\ lease[i] = {}

\* ---- C12 ---------------------------------------------------------------

\* the awaits inside processApp: a status check, a claim, the Item Processor or a
\* completion has been issued
InProcessApp(w) ==
  pc[w] \in {"get", "exists", "markAppProcessing", "scrapeApp", "markAppCompleted", "awaitCache"}

\* C12: a store that is unreachable at worker startup is fatal.  As long as the store has
\* not been reachable since the workers started, no worker has issued a status check or a
\* claim or invoked the Item Processor.
C12_StartupConnectivityFatal ==
  ~connected => \A w \in Workers : ~InProcessApp(w)

\* ---- C18 ---------------------------------------------------------------

\* C18: item identifiers are case-normalized before they become key suffixes.  Two names
\* that differ only in case address one lease key and one completion key, so the store
\* never holds two leases or two markers for such a pair, and a worker's local cache
\* holds one entry for both.
C18_CaseNormalizedKeys ==
  /\ \A n1, n2 \in Names :
        (n1 # n2 /\ toLowerCase(n1) = toLowerCase(n2)) =>
          /\ ~(lease[n1] # {} /\ lease[n2] # {})
          /\ ~(data[n1] # {} /\ data[n2] # {})
  /\ \A w \in Workers : \A n \in lock[w] : toLowerCase(n) = n

\* ---- C17 ---------------------------------------------------------------

\* C17: the heartbeat is an upsert with a fixed ttl that every call refreshes.  Every
\* stored record expires exactly STATUS_EXPIRY after the call that wrote it and is gone
\* after that; every answered call leaves exactly the record of that call; and with the
\* timer refreshing every period the record of a running worker, once written, is there
\* at every later timer period (no call having been rejected).
C17_HeartbeatUpsert ==
  /\ [](\A w \in Workers : \A r \in status[w] :
           /\ r.expires_at = r.last_update + STATUS_EXPIRY
           /\ now <= r.expires_at)
  /\ [][\A w \in Workers :
          (status'[w] # status[w] /\ status'[w] # {}) =>
            \E r \in status'[w] :
              /\ status'[w] = {r}
              /\ r.machine_id = w
              /\ r.last_update = now'
              /\ r.expires_at = now' + STATUS_EXPIRY]_vars
  /\ [](\A w \in Workers :
           (faults = 0 /\ pc[w] # "exited" /\ ~beatDue[w]
              /\ now >= HEARTBEAT_INTERVAL \div 1000)
             => status[w] # {})

\* a running worker's record has outlived the ttl of its first write, refreshed by the
\* timer, while the record of a worker that has exited is gone from the store
C17_Witness ==
  \E w1, w2 \in Workers :
    /\ pc[w1] # "exited"
    /\ \E r \in status[w1] : r.last_update > HEARTBEAT_INTERVAL \div 1000 + STATUS_EXPIRY
    /\ pc[w2] = "exited"
    /\ status[w2] = {}
    /\ now > STATUS_EXPIRY

\* ---- C13 ---------------------------------------------------------------

\* the record the monitor read for the machine of a printed row
SourceOf(row) == mstatus[row.machineId]

\* C13: heartbeat staleness.  Every row the monitor prints shows its machine active
\* exactly when the tick's clock minus the record's last_active is below
\* MACHINE_INACTIVE_THRESHOLD, and inactive from that difference on.
C13_ActiveIffFresh ==
  \A row \in table : \A d \in SourceOf(row) :
    "last_active" \in DOMAIN d =>
      (row.status = "active"
         <=> renderedAt * 1000 - d["last_active"] < MACHINE_INACTIVE_THRESHOLD)

\* a tick whose clock is exactly the threshold past last_active shows the machine
\* inactive
C13_Witness ==
  \E row \in table : \E d \in SourceOf(row) :
    /\ "last_active" \in DOMAIN d
    /\ renderedAt * 1000 - d["last_active"] = MACHINE_INACTIVE_THRESHOLD
    /\ row.status = "inactive"

\* ---- C14 ---------------------------------------------------------------

\* C14: each tick enumerates all heartbeat records.  The reply of the tick's prefix scan
\* holds the key of every unexpired record updateMachineStatus has written.
C14_ScanFindsHeartbeats ==
  [][(monPc = "idle" /\ monPc' = "get") =>
        \A w \in Workers : status[w] # {} => statusKey(w) \in monKeys']_vars

\* ---- C15 ---------------------------------------------------------------

\* C15: the monitor is read-only.  No step of the monitor (start-up, the steps of a
\* tick, shutdown) creates, overwrites or deletes a lease, a completion marker or a
\* heartbeat record, or changes its expiry.
C15_MonitorReadOnly ==
  [][monitorVars' # monitorVars => UNCHANGED <<lease, data, status, mstatus>>]_vars

\* the monitor has printed a table and a list of processing apps from a store that holds
\* a lease, a marker and a heartbeat, and has shut down
C15_Witness ==
  /\ monPc = "exited"
  /\ table # {}
  /\ listing # {}
  /\ \E n \in Names : lease[n] # {}
  /\ \E n \in Names : data[n] # {}
  /\ \E w \in Workers : status[w] # {}

\* ---- C16 ---------------------------------------------------------------

\* the placeholder of the machine table
Placeholder == "-"

\* C16: the monitor degrades gracefully on partial records.  The row printed for a
\* record that misses fields shows the placeholder for each missing field: for
\* current_app, for the two durations derived from last_active and started_at, and a
\* content for the two counts.
C16_PlaceholdersForMissing ==
  \A row \in table : \A d \in SourceOf(row) :
    /\ "current_app" \notin DOMAIN d => row.current_app = Placeholder
    /\ "last_active" \notin DOMAIN d => row.last_active.form = Placeholder
    /\ "started_at" \notin DOMAIN d => row.uptime.form = Placeholder
    /\ "processed_count" \notin DOMAIN d => row.processed_count # {}
    /\ "failed_count" \notin DOMAIN d => row.failed_count # {}

\* ---- C21 ---------------------------------------------------------------

\* processApp returns from its status check having found the item leased or completed
ConflictStep(w) ==
  /\ pc[w] = "exists"
  /\ pc'[w] \notin {"exists", "exited"}
  /\ faults' = faults
  /\ data[appName[w]] # {} \/ isProcessing[w]

\* C21: conflict means skip, not retry.  When the status check finds the item leased
\* or already completed, processApp returns to the loop, which moves on to the next
\* url: no lease and no marker is written, scrapeApp is not entered, and the item
\* is counted neither as failed nor as processed.
C21_ConflictMeansSkip ==
  [][\A w \in Workers : ConflictStep(w) =>
       /\ pc'[w] = "urls"
       /\ urlIdx'[w] = urlIdx[w] + 1
       /\ appName'[w] = NoApp
       /\ UNCHANGED <<lease, data>>
       /\ machineStatus'[w].failed_count = machineStatus[w].failed_count
       /\ machineStatus'[w].processed_count = machineStatus[w].processed_count]_vars

\* a worker has passed the first url of its category, which another machine holds the
\* lease of, without a cache entry, a failure or a result
C21_Witness ==
  \E w \in Workers :
    /\ pc[w] = "urls"
    /\ selectedFile[w] = "c1"
    /\ urlIdx[w] = 2
    /\ restarts = 0
    /\ faults = 0
    /\ machineStatus[w] = freshStatus
    /\ "a" \notin lock[w]
    /\ data["a"] = {}
    /\ \E r \in lease["a"] : r.machine_id # w

\* ---- C22 ---------------------------------------------------------------

\* C22: release after a Coordinator-level error.  When the claim command or the
\* completion transaction of a worker is rejected, the worker gives the item up
\* without a lease of its own left on it.
C22_ReleaseAfterError ==
  [][\A w \in Workers :
       (/\ pc[w] \in {"markAppProcessing", "markAppCompleted"}
        /\ faults' = faults + 1
        /\ pc'[w] = "urls")
       => \A r \in lease'[appName[w]] : r.machine_id # w]_vars

\* ---- C26 ---------------------------------------------------------------

\* C26: a failed attempt is actually retried.  The status check of a retry (a
\* processApp call with retryCount > 0) does not end the item as skipped on account
\* of the lease the worker itself wrote in the attempt that failed.
C26_RetryNotSkippedByOwnLease ==
  [][\A w \in Workers :
       (/\ retryCount[w] > 0
        /\ pc[w] = "exists"
        /\ pc'[w] = "urls"
        /\ faults' = faults)
       => ~(/\ isProcessing[w]
            /\ data[appName[w]] = {}
            /\ \E r \in lease[appName[w]] : r.machine_id = w)]_vars

\* ---- C29 ---------------------------------------------------------------

\* C29: graceful stop on cancellation.  Once the interrupt signal has been received
\* and until the process has exited, the worker's loop starts no new item: no
\* processApp call gets to its status check.
C29_NoNewItemAfterSigint ==
  [][\A w \in Workers : sigint[w] => ~(pc[w] = "urls" /\ pc'[w] = "get")]_vars

\* ---- C30 ---------------------------------------------------------------

\* C30: the heartbeat record is created at worker start.  While a worker process is
\* running there is a record under its status key, from its first moment on.
C30_HeartbeatFromStart ==
  \A w \in Workers : pc[w] # "exited" => status[w] # {}

\* ---- C27 ---------------------------------------------------------------

\* main's loop calls processApp for its current url
LoopCall(w) ==
  /\ pc[w] = "urls"
  /\ urlIdx[w] <= Len(CategoryUrls[selectedFile[w]])
  /\ pc'[w] # "exited"
  /\ pc'[w] # pc[w] \/ urlIdx'[w] # urlIdx[w]

\* C27: the local cache is consulted before any network round trip.  A processApp
\* call whose item the cache reports complete returns to the loop as skipped, with
\* the store untouched, the counters unchanged and scrapeApp not entered; and a
\* call gets to its first store command, the GET of the status check, only for an
\* item the cache does not hold.
C27_CacheBeforeStore ==
  [][\A w \in Workers :
       /\ (LoopCall(w) /\ checkLocalCache(w, CategoryUrls[selectedFile[w]][urlIdx[w]]))
            => /\ pc'[w] = "urls"
               /\ urlIdx'[w] = urlIdx[w] + 1
               /\ appName'[w] = NoApp
               /\ UNCHANGED <<storeVars, lock>>
               /\ machineStatus'[w] = machineStatus[w]
       /\ (pc[w] # "get" /\ pc'[w] = "get") => ~checkLocalCache(w, appName'[w])]_vars

\* a restarted worker has passed the first url of its category on the word of a lock
\* file alone: the store holds no marker for the item and nothing was counted
C27_Witness ==
  \E w \in Workers :
    /\ restarts = 1
    /\ pc[w] = "urls"
    /\ selectedFile[w] = "c1"
    /\ urlIdx[w] = 2
    /\ "a" \in lock[w]
    /\ data["a"] = {}
    /\ machineStatus[w] = freshStatus

\* ---- C25 ---------------------------------------------------------------

\* scrapeApp returns null to the processApp call of worker w
ScrapeFailed(w) == pc[w] = "scrapeApp" /\ pc'[w] # "scrapeApp" /\ faults' = faults + 1

DoneStep(w) == machineStatus'[w].processed_count = machineStatus[w].processed_count + 1

\* processApp returns because the store reports its item completed
CompletedSkipStep(w) ==
  /\ pc[w] = "exists"
  /\ pc'[w] = "urls"
  /\ faults' = faults
  /\ data[appName[w]] # {}

\* C28 as stated: the local cache is write-through on DONE.  After a worker has
\* finished an item as processed, or skipped it because the store reports it
\* completed, the worker's cache holds the item, and it holds it on every later check.
C28_CacheWriteThrough ==
  [][\A w \in Workers :
       /\ lock[w] \subseteq lock'[w]
       /\ (DoneStep(w) \/ CompletedSkipStep(w)) => toLowerCase(appName[w]) \in lock'[w]]_vars

\* C28 amended: processApp counts an item as processed, or skips it as completed,
\* only when its markLocalCache call for the item has returned; the cache then
\* holds the item unless that call has logged a write error, and the cache never
\* loses an entry.
C28_CacheWrittenUnlessError ==
  [][\A w \in Workers :
       /\ lock[w] \subseteq lock'[w]
       /\ (DoneStep(w) \/ CompletedSkipStep(w)) =>
            /\ appName[w] \notin pendingCache'[w]
            /\ toLowerCase(appName[w]) \in lock'[w] \/ appName[w] \in cacheErrors'[w]]_vars

\* a worker has counted an item as processed and its cache holds the item with no
\* write error logged
C28_Witness ==
  \E w \in Workers :
    /\ machineStatus[w].processed_count = 1
    /\ "a" \in lock[w]
    /\ data["a"] # {}
    /\ cacheErrors[w] = {}
    /\ pendingCache[w] = {}

\* ---- cleanup-redis.js --------------------------------------------------

\* the value the processApps stage stores under app:mongo:<name>
mongoRecord(w) == [processed_by |-> w, processed_at |-> now]

\* the patterns cleanupRedis passes to deleteKeysWithPattern, in its order, as prefixes
CleanupPatterns == <<(<<"app", "data">>), (<<"app", "processing">>)>>

\* the position of cleanupRedis: the index of the pattern being deleted
CleanupIndex == CASE cleanPc = "data" -> 1 [] cleanPc = "processing" -> 2 [] OTHER -> 0

\* what follows the pattern being deleted: the next pattern, or process.exit(0)
CleanupAfter == CASE cleanPc = "data" -> "processing" [] OTHER -> "done"

\* the operator runs cleanup-redis.js
CleanupStart ==
  /\ cleanPc = "off"
  /\ cleanPc' = "data"
  /\ UNCHANGED <<now, storeVars, diskVars, pc, loopVars, procVars, machineStatus,
                 pendingCache, sigint, faults, envVars, restVars, mongo, budgetVars,
                 cacheErrors, startedAt, importer>>

\* deleteKeysWithPattern: one round of the do-while.  SCAN returns a batch of the keys
\* that match and DEL removes them; the cursor comes back as '0' once every matching
\* key has been returned
CleanupScan ==
  /\ CleanupIndex > 0
  /\ connected
  /\ \E batch \in SUBSET keys(CleanupPatterns[CleanupIndex]) :
       /\ batch # {} \/ keys(CleanupPatterns[CleanupIndex]) = {}
       /\ lease' = [n \in Names |-> IF processingKey(n) \in batch THEN {} ELSE lease[n]]
       /\ data' = [n \in Names |-> IF dataKey(n) \in batch THEN {} ELSE data[n]]
       /\ mongo' = [n \in Names |-> IF mongoKey(n) \in batch THEN {} ELSE mongo[n]]
       /\ cleanPc' = IF batch = keys(CleanupPatterns[CleanupIndex])
                     THEN CleanupAfter ELSE cleanPc
  /\ UNCHANGED <<now, status, diskVars, pc, loopVars, procVars, machineStatus,
                 pendingCache, sigint, faults, envVars, restVars, budgetVars, cacheErrors, startedAt, importer>>

\* a SCAN or DEL is rejected: cleanupRedis's catch, process.exit(1)
CleanupError ==
  /\ CleanupIndex > 0
  /\ connected
  /\ faults < budget.faults /\ MoreEvents
  /\ faults' = faults + 1
  /\ cleanPc' = "failed"
  /\ UNCHANGED <<now, storeVars, diskVars, pc, loopVars, procVars, machineStatus,
                 pendingCache, sigint, envVars, restVars, mongo, budgetVars, cacheErrors, startedAt, importer>>

\* the records workers may have left under each key of an item
LeftBy(records) == [Names -> {{}} \cup {{r} : r \in records}]

\* cleanup-redis.js is run on a store no worker is writing to, which holds whatever
\* keys the stages have left in it
CleanupInit ==
  /\ Started(NoFiles, "exited")
  /\ lease \in LeftBy({leaseRecord(w) : w \in Workers})
  /\ data \in LeftBy({dataRecord(w) : w \in Workers})
  /\ mongo \in {m \in LeftBy({mongoRecord(w) : w \in Workers}) : m["A"] = {}}
  /\ status \in [Workers -> {{}}] \cup {[w \in Workers |-> {statusRecord(w, "stopped")}]}
  /\ mstatus = [w \in Workers |-> {}]
  /\ MonitorOff
  /\ CleanupOff
  /\ Budget(MaxFaults, MaxTime, MaxEvents)
  /\ connected = TRUE

CleanupNext ==
  \/ CleanupStart
  \/ CleanupScan
  \/ CleanupError

CleanupSpec == CleanupInit /\ [][CleanupNext]_vars

\* ---- C24 ---------------------------------------------------------------

\* C24: the cleanup tool uses the Coordinator's namespacing.  After cleanup-redis.js
\* has run to its end on a store without concurrent writers, no key is left under
\* the lease prefix or under a completion prefix a worker stage writes.
C24_CleanupClearsNamespace ==
  cleanPc = "done" =>
    /\ keys(<<"app", "processing">>) = {}
    /\ keys(<<"app", "data">>) = {}
    /\ keys(<<"app", "mongo">>) = {}

\* ---- C32 ---------------------------------------------------------------

\* C32: a running worker is displayed active.  The heartbeat record of a process
\* that is alive, read at any time, passes displayStats's test for the active mark:
\* its last_active is less than the threshold behind the clock.
C32_RunningShownActive ==
  \A w \in Workers : pc[w] # "exited" =>
    \A r \in status[w] : isActive(Minus(DateNow, Field(r, "last_active")))

\* ---- C31 ---------------------------------------------------------------

\* C31: a worker never deletes a lease it does not hold.  Whenever a command of a
\* worker removes the lease key of its item, the lease removed names that worker as
\* its holder.
C31_DeletesOnlyOwnLease ==
  [][\A w \in Workers :
       (/\ pc[w] = "markAppCompleted"
        /\ pc'[w] \in {"awaitCache", "urls"}
        /\ lease[appName[w]] # {}
        /\ lease'[appName[w]] = {})
       => \A r \in lease[appName[w]] : r.machine_id = w]_vars

\* ---- C33 ---------------------------------------------------------------

\* C33: no exit path leaks a lease.  A processApp call that has written its lease
\* (current_app is set right after the claim) and returns without having counted
\* the item as processed leaves no lease of its worker on the item.
C33_NoExitLeaksLease ==
  [][\A w \in Workers :
       (/\ machineStatus[w].current_app # NoApp
        /\ pc[w] # "urls"
        /\ pc'[w] = "urls"
        /\ ~DoneStep(w))
       => \A r \in lease'[machineStatus[w].current_app] : r.machine_id # w]_vars

\* ---- processApps.js, the database-import stage ---------------------------

\* the machine processApps.js runs on: its RedisService carries that machine's id and
\* its main reads that machine's lock directory
ImportMachine == "m1"

\* everything but the store and the import process stays as it is
ImportFrame ==
  UNCHANGED <<now, data, status, diskVars, pc, loopVars, procVars, machineStatus,
              pendingCache, sigint, envVars, restVars, cleanPc, budgetVars, cacheErrors,
              startedAt>>

\* processApp of the import stage returns: the for loop of main goes on
ImportReturn(line) ==
  importer' = [importer EXCEPT !.pc = "loop", !.name = NoApp, !.log = line]

\* main: readdir of the lock directory, the .lock files are the apps to process
ImportStart ==
  /\ importer.pc = "off"
  /\ connected
  /\ importer' = [importer EXCEPT !.pc = "loop", !.todo = lock[ImportMachine]]
  /\ UNCHANGED <<lease, mongo, faults>>
  /\ ImportFrame

\* main: the next lock file; processApp lowercases the name and asks MongoDB for it
ImportNext ==
  /\ importer.pc = "loop"
  /\ \E n \in importer.todo : \E existingApp \in BOOLEAN :
       importer' = IF existingApp
                   THEN [importer EXCEPT !.todo = @ \ {n}, !.log = "exists in MongoDB"]
                   ELSE [importer EXCEPT !.todo = @ \ {n}, !.name = toLowerCase(n),
                                         !.pc = "status"]
  /\ UNCHANGED <<lease, mongo, faults>>
  /\ ImportFrame

\* processApp: GET app:processing:<name> and EXISTS app:mongo:<name>, the two skips
ImportStatus ==
  /\ importer.pc = "status"
  /\ IF lease[importer.name] # {}
     THEN ImportReturn("being processed by another machine")
     ELSE IF mongo[importer.name] # {}
     THEN ImportReturn("already processed to MongoDB")
     ELSE importer' = [importer EXCEPT !.pc = "markAppProcessing"]
  /\ UNCHANGED <<lease, mongo, faults>>
  /\ ImportFrame

\* processApp: markAppProcessing
ImportClaim ==
  /\ importer.pc = "markAppProcessing"
  /\ lease' = [lease EXCEPT ![importer.name] = {leaseRecord(ImportMachine)}]
  /\ importer' = [importer EXCEPT !.pc = "get", !.claimed = @ \cup {importer.name}]
  /\ UNCHANGED <<mongo, faults>>
  /\ ImportFrame

\* processApp: GET app:data:<name>; without data it returns, inside the inner try
ImportGetData ==
  /\ importer.pc = "get"
  /\ IF data[importer.name] = {}
     THEN ImportReturn("No Redis data found")
     ELSE importer' = [importer EXCEPT !.pc = "save"]
  /\ UNCHANGED <<lease, mongo, faults>>
  /\ ImportFrame

\* processApp: the data is normalized and saved, then MULTI; SET app:mongo:<name>;
\* DEL app:processing:<name>; EXEC
ImportSave ==
  /\ importer.pc = "save"
  /\ mongo' = [mongo EXCEPT ![importer.name] = {mongoRecord(ImportMachine)}]
  /\ lease' = [lease EXCEPT ![importer.name] = {}]
  /\ ImportReturn("Successfully processed and saved")
  /\ UNCHANGED faults
  /\ ImportFrame

\* processApp: normalizing, saving or the transaction throws; the inner catch deletes
\* app:processing:<name>
ImportError ==
  /\ importer.pc = "save"
  /\ faults < budget.faults /\ MoreEvents
  /\ faults' = faults + 1
  /\ lease' = [lease EXCEPT ![importer.name] = {}]
  /\ ImportReturn("Error processing")
  /\ UNCHANGED mongo
  /\ ImportFrame

\* main: no lock file is left, process.exit(0)
ImportExit ==
  /\ importer.pc = "loop"
  /\ importer.todo = {}
  /\ importer' = [importer EXCEPT !.pc = "exited"]
  /\ UNCHANGED <<lease, mongo, faults>>
  /\ ImportFrame

\* processApps.js is run on the machine of a scraper, which may still be running
StageInit ==
  /\ Started(SoloFiles, "main")
  /\ EmptyStore
  /\ MonitorOff
  /\ CleanupOff
  /\ Budget(MaxFaults, MaxTime, MaxEvents)
  /\ connected \in BOOLEAN

StageNext ==
  \/ Next
  \/ ImportStart
  \/ ImportNext
  \/ ImportStatus
  \/ ImportClaim
  \/ ImportGetData
  \/ ImportSave
  \/ ImportError
  \/ ImportExit

StageSpec == StageInit /\ [][StageNext]_vars

\* ---- C34 ---------------------------------------------------------------

\* C34: pipeline stages do not block each other through shared keys.  The import
\* stage skips an item as being processed only on account of a lease that the
\* import stage has written itself, never on account of a scraper's lease.
C34_StagesDoNotBlock ==
  [][(importer.pc = "status" /\ importer'.log = "being processed by another machine"
        /\ importer'.pc = "loop")
       => importer.name \in importer.claimed]_vars

\* ---- C35 ---------------------------------------------------------------

\* the monitor runs while the operator runs cleanup-redis.js on a store that holds
\* the leases of two items and the record of one machine
VanishInit ==
  /\ Started(NoFiles, "exited")
  /\ lease = [n \in Names |-> IF n \in Items THEN {leaseRecord("m1")} ELSE {}]
  /\ data \in {[n \in Names |-> IF n = "b" /\ done THEN {dataRecord("m1")} ELSE {}] :
                 done \in BOOLEAN}
  /\ status = [w \in Workers |-> {}]
  /\ mstatus \in {[m \in Workers |-> IF m = "m1" /\ seen THEN {FullRecord} ELSE {}] :
                    seen \in BOOLEAN}
  /\ mongo = [i \in Names |-> {}]
  /\ MonitorOff
  /\ CleanupOff
  /\ Budget(MaxFaults, MaxTime, MaxEvents)
  /\ connected = TRUE

VanishNext ==
  \/ MonitorNext
  \/ CleanupStart
  \/ CleanupScan
  \/ CleanupError

VanishSpec == VanishInit /\ [][VanishNext]_vars

\* C35: a monitor tick tolerates records that vanish between enumeration and read.
\* When the list of processing apps of a tick ends without a rejected command, every
\* lease of its enumeration that is still in the store has been printed.
C35_TickToleratesVanished ==
  [][(monPc = "listGet" /\ monPc' = "idle" /\ faults' = faults) =>
       \A k \in monList : get(k) # {} =>
         \E line \in listing' : line.appName = k[3]]_vars

\* ---- C36 ---------------------------------------------------------------

\* C36: after a graceful shutdown the worker's last written heartbeat is the 'stopped'
\* one.  Whenever the step in which a process exits changes the status record of its
\* machine, the record it leaves is the 'stopped' record of the handler.
C36_StoppedIsLast ==
  [][\A w \in Workers :
       (pc[w] # "exited" /\ pc'[w] = "exited" /\ status'[w] # status[w])
         => \A r \in status'[w] : r.status = "stopped"]_vars

\* ---- C37 ---------------------------------------------------------------

\* C37: the worker counters account for every item exactly once.  While a process
\* runs neither counter decreases, a step adds at most one to one of them, and an item
\* for which a scrapeApp attempt has failed (its processApp call carries a retryCount
\* above 0) goes back to the loop either as DONE, counted in processed_count, or
\* counted in failed_count: never as skipped, with both counters unchanged.
C37_CountersAccountOnce ==
  [][\A w \in Workers :
       (pc[w] # "exited" /\ pc'[w] # "exited") =>
         LET p == machineStatus[w].processed_count
             f == machineStatus[w].failed_count
             p2 == machineStatus'[w].processed_count
             f2 == machineStatus'[w].failed_count
         IN /\ <<p2, f2>> \in {<<p, f>>, <<p + 1, f>>, <<p, f + 1>>}
            /\ (pc[w] # "urls" /\ pc'[w] = "urls" /\ retryCount[w] > 0)
                 => <<p2, f2>> # <<p, f>>]_vars

\* ---- C38 ---------------------------------------------------------------

\* C38: a category is marked processed only when its work is done.  When a worker
\* renames a category file to .processed, every item of the category has a completion
\* marker in the store or is complete according to the worker's local cache.
C38_ProcessedMeansDone ==
  [][\A w \in Workers : \A c \in Categories :
       (catFile[w][c] = "json" /\ catFile'[w][c] = "processed") =>
         \A k \in 1..Len(CategoryUrls[c]) :
           LET name == CategoryUrls[c][k]
           IN \/ data[name] # {}
              \/ data[toLowerCase(name)] # {}
              \/ checkLocalCache(w, name)]_vars

\* ---- C39 ---------------------------------------------------------------

\* main: something in the try block of a category throws outside processApp (readFile,
\* JSON.parse, puppeteer.launch, newPage, browser.close); the catch renames the
\* category file to .failed and the while loop goes on
CategoryError(w) ==
  /\ pc[w] = "urls"
  /\ faults < budget.faults /\ MoreEvents
  /\ faults' = faults + 1
  /\ catFile' = [catFile EXCEPT ![w][selectedFile[w]] = "failed"]
  /\ selectedFile' = [selectedFile EXCEPT ![w] = NoFile]
  /\ urlIdx' = [urlIdx EXCEPT ![w] = 0]
  /\ pc' = [pc EXCEPT ![w] = "main"]
  /\ UNCHANGED <<now, storeVars, lock, procVars, machineStatus, pendingCache, sigint,
                 envVars, restVars, sideVars>>

\* machine m1 has two category files to work through, machine m2 has none
LoopFiles == [w \in Workers |-> IF w = "m1" THEN {"c1", "c2"} ELSE {}]

LoopInit ==
  /\ Started(LoopFiles, "main")
  /\ EmptyStore
  /\ MonitorOff
  /\ CleanupOff
  /\ Budget(MaxFaults, MaxTime, MaxEvents)
  /\ connected \in BOOLEAN

LoopNext ==
  \/ Next
  \/ \E w \in Workers : CategoryError(w)

\* the event loop of a process runs every continuation that is ready: a worker whose
\* next step is enabled takes it, and a SIGINT handler whose write was answered exits.
\* Nothing obliges the store to become reachable, an error to happen, the operator to
\* restart a process or send a signal.
LoopSpec ==
  /\ LoopInit
  /\ [][LoopNext]_vars
  /\ \A w \in Workers : WF_vars(WorkerStep(w)) /\ WF_vars(SigintExit(w))

\* the loop iteration of worker w ends in this step
IterationEnds(w) == pc[w] = "urls" /\ pc'[w] = "main"

\* every loop iteration removes exactly the .json file it selected, renamed to
\* .processed or .failed; no file becomes a .json file again and a category is selected
\* only while it is one; the loop is left only when no .json file remains
LoopRemovesOneFile ==
  [][\A w \in Workers :
       /\ IterationEnds(w) =>
            /\ selectedFile[w] \in jsonFiles(w)
            /\ {c \in Categories : catFile'[w][c] = "json"} = jsonFiles(w) \ {selectedFile[w]}
            /\ catFile'[w][selectedFile[w]] \in {"processed", "failed"}
       /\ {c \in Categories : catFile'[w][c] = "json"} \subseteq jsonFiles(w)
       /\ (selectedFile'[w] # selectedFile[w] /\ selectedFile'[w] # NoFile)
            => selectedFile'[w] \in jsonFiles(w)
       /\ (pc[w] # "done" /\ pc'[w] = "done") => jsonFiles(w) = {}]_vars

\* C39: the scraper's continuous loop terminates.  With finitely many category files
\* and a scrapeApp that always returns, every loop iteration removes exactly one .json
\* file, no category is selected twice in a run, and every worker's loop comes to its
\* end: the process has left the loop with no .json file remaining, or has exited.
C39_LoopTerminates ==
  /\ LoopRemovesOneFile
  /\ \A w \in Workers : <>(pc[w] \in {"done", "exited"})

====
